---------------------------- MODULE Spec2Model ----------------------------
(***************************************************************************)
(* A model of script.py: the site-parameter parser (parse_tmp_file), the   *)
(* traffic-report parser (parse_traffic_report), the table builder         *)
(* (create_csv_table, get_antenna_type) and the pipeline (main).           *)
(*                                                                         *)
(* A Python str is a sequence of one-character strings; a dict that is     *)
(* only looked up is a function; a dict whose iteration order is observed  *)
(* is a record [keys |-> <<...>>, val |-> function] (insertion order).     *)
(***************************************************************************)
EXTENDS Integers, Sequences, FiniteSets, TLC

VARIABLES
    pc,            \* position of the running function
    content,       \* parse_tmp_file: the text read from the site file
    site_sections, \* parse_tmp_file: re.split(...)[1:]
    sectors,       \* parse_tmp_file result / create_csv_table sectors_data
    lines,         \* parse_traffic_report: file.readlines()
    data_started,  \* parse_traffic_report: the flag
    traffic_data,  \* parse_traffic_report result / create_csv_table input
    idx,           \* index of the next element of the running loop
    stations,      \* create_csv_table: station -> list of sector ids
    todo,          \* create_csv_table: (station, i, sector_id) still to emit
    rows,          \* create_csv_table: rows
    raised,        \* the exception that left the running function, or "none"
    fs,            \* main: the files on disk
    stdout         \* main: the messages printed

vars == <<pc, content, site_sections, sectors, lines, data_started,
          traffic_data, idx, stations, todo, rows, raised, fs, stdout>>

----------------------------------------------------------------------------
(* Python str operations on sequences of characters                        *)

\* Characters str.strip() and str.split() treat as whitespace (those of the
\* model's alphabet).
Whitespace == {" ", "\t", "\n"}

\* The model's alphabet in code-point order (the order sorted() compares by).
CharOrder ==
    <<"\t", "\n", " ", "*", "+", "-", ".", "/",
      "0", "1", "2", "3", "4", "5", "6", "7", "8", "9", ":", "=", ">",
      "A", "B", "C", "D", "E", "I", "P", "S", "T", "W", "X", "Y", "Z", "\\",
      "a", "b", "c", "d", "e", "f", "i", "k", "n", "v", "x">>

Ord(c) == CHOOSE n \in 1..Len(CharOrder) : CharOrder[n] = c

\* s < t for Python strings: lexicographic by code point, a proper prefix first.
RECURSIVE StrLess(_, _)
StrLess(s, t) ==
    IF t = << >> THEN FALSE
    ELSE IF s = << >> THEN TRUE
    ELSE IF Head(s) = Head(t) THEN StrLess(Tail(s), Tail(t))
    ELSE Ord(Head(s)) < Ord(Head(t))

RECURSIVE LStrip(_)
LStrip(s) ==
    IF s # << >> /\ Head(s) \in Whitespace THEN LStrip(Tail(s)) ELSE s

RECURSIVE RStrip(_)
RStrip(s) ==
    IF s # << >> /\ s[Len(s)] \in Whitespace
    THEN RStrip(SubSeq(s, 1, Len(s) - 1)) ELSE s

\* str.strip()
Strip(s) == RStrip(LStrip(s))

\* sub in s
Contains(s, sub) ==
    \E n \in 1..(Len(s) - Len(sub) + 1) : SubSeq(s, n, n + Len(sub) - 1) = sub

\* The index of the first occurrence of sub in s, 0 when there is none.
Find(s, sub) ==
    IF Contains(s, sub)
    THEN CHOOSE n \in 1..(Len(s) - Len(sub) + 1) :
            /\ SubSeq(s, n, n + Len(sub) - 1) = sub
            /\ \A m \in 1..(n - 1) : SubSeq(s, m, m + Len(sub) - 1) # sub
    ELSE 0

\* s.split(sep) for a non-empty sep: always at least one piece.
RECURSIVE SplitOn(_, _)
SplitOn(s, sep) ==
    LET n == Find(s, sep) IN
    IF n = 0 THEN <<s>>
    ELSE <<SubSeq(s, 1, n - 1)>> \o SplitOn(SubSeq(s, n + Len(sep), Len(s)), sep)

\* s.split(): the maximal runs of non-whitespace characters.
RECURSIVE SplitWs(_)
SplitWs(s) ==
    LET t == LStrip(s) IN
    IF t = << >> THEN << >>
    ELSE LET ends == {n \in 1..Len(t) : t[n] \in Whitespace}
             stop == IF ends = {} THEN Len(t) + 1
                     ELSE CHOOSE n \in ends : \A m \in ends : n <= m
         IN <<SubSeq(t, 1, stop - 1)>> \o SplitWs(SubSeq(t, stop, Len(t)))

\* c * n
RECURSIVE Rep(_, _)
Rep(c, n) == IF n = 0 THEN << >> ELSE <<c>> \o Rep(c, n - 1)

\* sep.join(parts)
RECURSIVE Join(_, _)
Join(parts, sep) ==
    IF parts = << >> THEN << >>
    ELSE IF Len(parts) = 1 THEN parts[1]
    ELSE parts[1] \o sep \o Join(Tail(parts), sep)

\* dict: d.get(k, default), d[k] = v on a dict that is only looked up
Get(d, k, default) == IF k \in DOMAIN d THEN d[k] ELSE default

Put(d, k, v) == [x \in (DOMAIN d) \cup {k} |-> IF x = k THEN v ELSE d[x]]

EmptyDict == [x \in {} |-> << >>]

\* dict whose order is observed: d[k] = v keeps the place of a key already there
EmptyODict == [keys |-> << >>, val |-> EmptyDict]

OPut(d, k, v) ==
    [keys |-> IF k \in DOMAIN d.val THEN d.keys ELSE Append(d.keys, k),
     val  |-> Put(d.val, k, v)]

----------------------------------------------------------------------------
(* parse_traffic_report                                                    *)

\* The boundary string of line 41.
Boundary ==
    Join(<<Rep("-", 9), Rep("-", 15), Rep("-", 17), Rep("-", 12),
           Rep("-", 9), Rep("-", 16), Rep("-", 14)>>, <<" ">>)

IsBoundary(line) == Contains(line, Boundary)

\* The record of lines 57-64 from the tokens of a line.
TrafficRecord(parts) ==
    [circuit_traffic      |-> parts[2],
     required_channels    |-> parts[3],
     channels_set         |-> parts[4],
     channel_shortfall    |-> parts[5],
     blocking_probability |-> parts[6],
     packet_traffic       |-> parts[7]]

\* TrafficStep without the test of the flag on line 45.
TrafficStepNoFlag(st, line) ==
    IF IsBoundary(line)
    THEN [started |-> TRUE, data |-> st.data]
    ELSE IF Strip(line) # << >>
    THEN LET parts == SplitWs(line) IN
         IF Len(parts) >= 7
         THEN [started |-> st.started,
               data |-> Put(st.data, parts[1], TrafficRecord(parts))]
         ELSE st
    ELSE st

\* TrafficStep where only the first boundary line is skipped.
TrafficStepFirstBoundary(st, line) ==
    IF IsBoundary(line) /\ ~st.started
    THEN [started |-> TRUE, data |-> st.data]
    ELSE IF st.started /\ Strip(line) # << >>
    THEN LET parts == SplitWs(line) IN
         IF Len(parts) >= 7
         THEN [started |-> st.started,
               data |-> Put(st.data, parts[1], TrafficRecord(parts))]
         ELSE st
    ELSE st

\* One iteration of the loop of line 40 on (data_started, traffic_data).
TrafficStep(st, line) ==
    IF IsBoundary(line)
    THEN [started |-> TRUE, data |-> st.data]
    ELSE IF st.started /\ Strip(line) # << >>
    THEN LET parts == SplitWs(line) IN
         IF Len(parts) >= 7
         THEN [started |-> st.started,
               data |-> Put(st.data, parts[1], TrafficRecord(parts))]
         ELSE st
    ELSE st

\* The whole function, on the lines read.
RECURSIVE TrafficFold(_, _)
TrafficFold(st, ls) ==
    IF ls = << >> THEN st ELSE TrafficFold(TrafficStep(st, Head(ls)), Tail(ls))

ParseTrafficReport(ls) ==
    TrafficFold([started |-> FALSE, data |-> EmptyDict], ls).data


\* Variables a specification does not use keep these values.
IdleTmp == content = << >> /\ site_sections = << >>
IdleTraffic == lines = << >> /\ data_started = FALSE
IdleTable == stations = EmptyODict /\ todo = << >> /\ rows = << >>
IdleMain == fs = EmptyDict /\ stdout = << >>

\* Lines of a traffic report, as readlines() returns them.
MaxLines == 3

DataRowA == <<"A","1"," ","1","0"," ","2"," ","3"," ","0"," ","1",".","5"," ","0",".","2","\n">>
DataRowA2 == <<"\t","A","1"," "," ","7"," ","8"," ","9"," ","1"," ","*","*","*","*","*"," ","x"," ","e","\n">>
DataRowB == <<"B","2"," ","4"," ","5"," ","6"," ","7"," ","8"," ","9">>
ShortRow == <<"A","1"," ","1","0"," ","2"," ","3"," ","0"," ","1",".","5","\n">>

TrafficLineSet ==
    { Boundary \o <<"\n">>,
      <<" ", "x">> \o Boundary \o <<"-", " ", "9", "\n">>,
      Rep("-", 9) \o <<" ">> \o Boundary \o <<"\n">>,
      \* the seven dash groups with two spaces after the first: no boundary
      SubSeq(Boundary, 1, 10) \o <<" ">> \o SubSeq(Boundary, 11, Len(Boundary)) \o <<"\n">>,
      DataRowA, DataRowA2, DataRowB, ShortRow,
      <<" ", "\t", "\n">> }

\* readlines(): every line but the last ends with the newline.
TrafficFiles ==
    { f \in UNION { [1..n -> TrafficLineSet] : n \in 0..MaxLines } :
        \A k \in 1..(Len(f) - 1) : f[k][Len(f[k])] = "\n" }

InitTraffic ==
    /\ pc = "traffic_loop"
    /\ lines \in TrafficFiles
    /\ data_started = FALSE
    /\ traffic_data = EmptyDict
    /\ idx = 1
    /\ sectors = EmptyODict
    /\ raised = "none"
    /\ IdleTmp /\ IdleTable /\ IdleMain

\* Lines 40-64: one line of the report.
TrafficLine ==
    /\ pc = "traffic_loop"
    /\ idx <= Len(lines)
    /\ LET st == TrafficStep([started |-> data_started, data |-> traffic_data],
                             lines[idx])
       IN /\ data_started' = st.started
          /\ traffic_data' = st.data
    /\ idx' = idx + 1
    /\ UNCHANGED <<pc, content, site_sections, sectors, lines, stations, todo,
                   rows, raised, fs, stdout>>

\* Line 66.
TrafficReturn ==
    /\ pc = "traffic_loop"
    /\ idx > Len(lines)
    /\ pc' = "traffic_done"
    /\ UNCHANGED <<content, site_sections, sectors, lines, data_started,
                   traffic_data, idx, stations, todo, rows, raised, fs, stdout>>

NextTraffic == TrafficLine \/ TrafficReturn

SpecTraffic == InitTraffic /\ [][NextTraffic]_vars

----------------------------------------------------------------------------
(* parse_tmp_file                                                          *)

\* The pattern of line 13.
Marker == <<"S", "I", "T", "E", "I", "D", " ", "=", " ">>

\* Line 13: re.split(r'SITEID = ', content)[1:].
SiteSections(text) == Tail(SplitOn(text, Marker))

\* SectionLines without the strip() of line 16.
SectionLinesNoStrip(section) == SplitOn(section, <<"\n">>)

\* Line 16: section.strip().split('\n').
SectionLines(section) == SplitOn(Strip(section), <<"\n">>)

\* Line 22-24: line.split('=', 1), both halves stripped.
KeyValue(line) ==
    LET n == Find(line, <<"=">>) IN
    [key   |-> Strip(SubSeq(line, 1, n - 1)),
     value |-> Strip(SubSeq(line, n + 1, Len(line)))]

\* Lines 19-25: the pairs of the lines after the identifier, in line order.
RECURSIVE SectorData(_, _)
SectorData(data, ls) ==
    IF ls = << >> THEN data
    ELSE IF Contains(Head(ls), <<"=">>)
    THEN LET kv == KeyValue(Head(ls))
         IN SectorData(Put(data, kv.key, kv.value), Tail(ls))
    ELSE SectorData(data, Tail(ls))

\* TmpStep that updates the identifier's earlier pairs instead of replacing them.
TmpStepMerge(secs, section) ==
    LET ls == SectionLines(section)
        site_id == Strip(ls[1])
    IN OPut(secs, site_id,
            SectorData(Get(secs.val, site_id, EmptyDict), Tail(ls)))

\* Lines 16-27: one iteration of the loop over the sections.
TmpStep(secs, section) ==
    LET ls == SectionLines(section)
        site_id == Strip(ls[1])
    IN OPut(secs, site_id, SectorData(EmptyDict, Tail(ls)))

RECURSIVE TmpFold(_, _)
TmpFold(secs, sections) ==
    IF sections = << >> THEN secs
    ELSE TmpFold(TmpStep(secs, Head(sections)), Tail(sections))

\* The whole function, on the text read.
ParseTmpFile(text) == TmpFold(EmptyODict, SiteSections(text))

\* Site files: an optional preamble, then up to MaxBlocks marker + fragment.
MaxBlocks == 3

FragmentSet ==
    { <<"A","1","\n","k"," ","="," ","v","\n">>,
      <<" ","A","1"," ","\t","\n","k","=","v","=","x","\n","\n","n","x","\n","=","\n">>,
      <<"\n","A","1"," ","="," ","1","\n">>,
      <<" "," ","\n"," ","B","2","\n","k"," ","="," ","1","\n","d","=","e">>,
      <<"A","1","\n","k"," ","="," ","v","\n","k"," ","=","x","\n","b","=","\n">>,
      <<"A","1","\n","d"," ","="," ","e","\n">>,
      << >>,
      <<" ","\n","\t","\n">> }

PreambleSet == { << >>, <<"x", "=", "1", "\n">> }

RECURSIVE Blocks(_)
Blocks(frags) ==
    IF frags = << >> THEN << >> ELSE Marker \o Head(frags) \o Blocks(Tail(frags))

SiteFiles ==
    { pre \o Blocks(frags) :
        pre \in PreambleSet,
        frags \in UNION { [1..n -> FragmentSet] : n \in 0..MaxBlocks } }

InitTmp ==
    /\ pc = "tmp_read"
    /\ content \in SiteFiles
    /\ site_sections = << >>
    /\ sectors = EmptyODict
    /\ idx = 1
    /\ traffic_data = EmptyDict
    /\ raised = "none"
    /\ IdleTraffic /\ IdleTable /\ IdleMain

\* Line 13.
TmpSplit ==
    /\ pc = "tmp_read"
    /\ site_sections' = SiteSections(content)
    /\ pc' = "tmp_loop"
    /\ UNCHANGED <<content, sectors, lines, data_started, traffic_data, idx,
                   stations, todo, rows, raised, fs, stdout>>

\* Lines 15-27: one section.
TmpSection ==
    /\ pc = "tmp_loop"
    /\ idx <= Len(site_sections)
    /\ sectors' = TmpStep(sectors, site_sections[idx])
    /\ idx' = idx + 1
    /\ UNCHANGED <<pc, content, site_sections, lines, data_started,
                   traffic_data, stations, todo, rows, raised, fs, stdout>>

\* Line 29.
TmpReturn ==
    /\ pc = "tmp_loop"
    /\ idx > Len(site_sections)
    /\ pc' = "tmp_done"
    /\ UNCHANGED <<content, site_sections, sectors, lines, data_started,
                   traffic_data, idx, stations, todo, rows, raised, fs, stdout>>

NextTmp == TmpSplit \/ TmpSection \/ TmpReturn

SpecTmp == InitTmp /\ [][NextTmp]_vars

----------------------------------------------------------------------------
(* float(), "{:.2f}" and the conversions of create_csv_table               *)

DigitChars == <<"0", "1", "2", "3", "4", "5", "6", "7", "8", "9">>

IsDigit(c) == \E n \in 1..10 : DigitChars[n] = c

DigitVal(c) == (CHOOSE n \in 1..10 : DigitChars[n] = c) - 1

RECURSIVE DigitsVal(_, _)
DigitsVal(acc, s) ==
    IF s = << >> THEN acc ELSE DigitsVal(10 * acc + DigitVal(Head(s)), Tail(s))

\* str(n) for n >= 0
RECURSIVE IntToStr(_)
IntToStr(n) ==
    IF n < 10 THEN <<DigitChars[n + 1]>>
    ELSE IntToStr(n \div 10) \o <<DigitChars[(n % 10) + 1]>>

RECURSIVE Pow10(_)
Pow10(n) == IF n = 0 THEN 1 ELSE 10 * Pow10(n - 1)

\* float(s) for a stripped s without exponent or underscore (the value
\* strings of the model have none): a decimal (-1)^neg * mant / 10^scale,
\* an infinity, a nan, or ValueError ("err").
ParseFloat(s) ==
    LET signed == s # << >> /\ Head(s) \in {"+", "-"}
        neg    == s # << >> /\ Head(s) = "-"
        body   == IF signed THEN Tail(s) ELSE s
        dots   == {n \in 1..Len(body) : body[n] = "."}
        dot    == IF dots = {} THEN Len(body) + 1 ELSE CHOOSE n \in dots : TRUE
        frac   == SubSeq(body, dot + 1, Len(body))
    IN IF body \in {<<"i", "n", "f">>, <<"i", "n", "f", "i", "n", "i", "t", "y">>}
       THEN [kind |-> "inf", neg |-> neg, mant |-> 0, scale |-> 0]
       ELSE IF body = <<"n", "a", "n">>
       THEN [kind |-> "nan", neg |-> neg, mant |-> 0, scale |-> 0]
       ELSE IF /\ \A n \in 1..Len(body) : IsDigit(body[n]) \/ body[n] = "."
               /\ Cardinality(dots) <= 1
               /\ \E n \in 1..Len(body) : IsDigit(body[n])
       THEN [kind |-> "num", neg |-> neg,
             mant |-> DigitsVal(0, SubSeq(body, 1, dot - 1) \o frac),
             scale |-> Len(frac)]
       ELSE [kind |-> "err", neg |-> FALSE, mant |-> 0, scale |-> 0]

\* "{x:.2f}" of x = (-1)^neg * centi / 100
FormatCenti(neg, centi) ==
    (IF neg THEN <<"-">> ELSE << >>)
        \o IntToStr(centi \div 100)
        \o <<".", DigitChars[((centi \div 10) % 10) + 1], DigitChars[(centi % 10) + 1]>>

\* floor(10^(r/10) * 10^8) for r = 0..9
TenthPowers ==
    <<100000000, 125892541, 158489319, 199526231, 251188643,
      316227766, 398107170, 501187233, 630957344, 794328234>>

\* 10 ** (d / 10) overflows a double from d = 3083 on (10^308.3 > DBL_MAX).
OverflowFrom == 3083

\* Line 142-143 for an integral d <= 59: 10 ** (d / 10) in 1/100 W,
\* rounded as "{:.2f}" rounds.
WattsCenti(d) ==
    LET q == IF d >= 0 THEN d \div 10 ELSE -((-d + 9) \div 10)
        r == d - 10 * q
        div == Pow10(6 - q)
    IN IF q <= -4 THEN 0 ELSE (TenthPowers[r + 1] + div \div 2) \div div

\* Lines 138-145 on the stripped value: the power field, or the exception
\* that leaves the try (only ValueError is caught).  Numeric values are
\* integral and at most 59 (computed exactly) or at least OverflowFrom.
PowerField(power_dbw) ==
    LET p == ParseFloat(power_dbw)
        d == IF p.kind = "num" /\ p.mant % Pow10(p.scale) = 0
             THEN (IF p.neg THEN -1 ELSE 1) * (p.mant \div Pow10(p.scale)) ELSE 0
        watts ==
            IF p.kind = "nan" THEN <<"n", "a", "n">>
            ELSE IF p.kind = "inf"
            THEN (IF p.neg THEN FormatCenti(FALSE, 0) ELSE <<"i", "n", "f">>)
            ELSE FormatCenti(FALSE, WattsCenti(d))
    IN IF power_dbw = << >> THEN [raised |-> "none", text |-> << >>]
       ELSE IF p.kind = "err"
       THEN [raised |-> "none", text |-> <<"/">> \o power_dbw \o <<"d", "B", "W">>]
       ELSE IF p.kind = "num" /\ d >= OverflowFrom
       THEN [raised |-> "OverflowError", text |-> << >>]
       ELSE [raised |-> "none",
             text |-> watts \o <<"W", "/">> \o power_dbw \o <<"d", "B", "W">>]

\* Lines 158-165: Mbps to kbps.  Numeric values have at most 5 decimals.
PacketKbps(packet_traffic) ==
    LET p == ParseFloat(packet_traffic) IN
    IF packet_traffic = << >> THEN << >>
    ELSE IF p.kind = "err" THEN packet_traffic
    ELSE IF p.kind = "nan" THEN <<"n", "a", "n">>
    ELSE IF p.kind = "inf"
    THEN (IF p.neg THEN <<"-">> ELSE << >>) \o <<"i", "n", "f">>
    ELSE FormatCenti(p.neg, p.mant * Pow10(5 - p.scale))

----------------------------------------------------------------------------
(* get_antenna_type and create_csv_table                                   *)

KeyElevation ==
    <<"S", "i", "t", "e", " ", "e", "l", "e", "v", "a", "t", "i", "o", "n", "(", "m", ")">>
KeyPower ==
    <<"T", "r", "a", "n", "s", "m", "i", "t", "t", "e", "r", " ", "p", "o", "w", "e", "r", "(", "d", "B", "W", ")">>
KeyPattern ==
    <<"T", "r", "a", "n", "s", "m", "i", "t", " ", "a", "n", "t", "e", "n", "n", "a", " ", "p", "a", "t", "t", "e", "r", "n", " ", "f", "i", "l", "e", "n", "a", "m", "e">>
KeyAntennaType ==
    <<"T", "r", "a", "n", "s", "m", "i", "t", "t", "e", "r", " ", "a", "n", "t", "e", "n", "n", "a", " ", "t", "y", "p", "e">>
KeyAzimuth ==
    <<"T", "r", "a", "n", "s", "m", "i", "t", " ", "a", "n", "t", "e", "n", "n", "a", " ", "a", "z", "i", "m", "u", "t", "h", " ", "o", "r", "i", "e", "n", "t", "a", "t", "i", "o", "n", "(", "d", "e", "g", "r", "e", "e", "s", ")">>
KeyTilt ==
    <<"T", "r", "a", "n", "s", "m", "i", "t", " ", "a", "n", "t", "e", "n", "n", "a", " ", "m", "e", "c", "h", "a", "n", "i", "c", "a", "l", " ", "b", "e", "a", "m", "t", "i", "l", "t", "(", "d", "e", "g", "r", "e", "e", "s", ")">>

\* get_antenna_type that prefers the antenna type over the pattern filename.
GetAntennaTypeFirst(sector_data) ==
    LET antenna_type == Strip(Get(sector_data, KeyAntennaType, << >>))
        pattern_filename == Strip(Get(sector_data, KeyPattern, << >>))
    IN IF antenna_type # << >> THEN antenna_type
       ELSE IF Contains(pattern_filename, <<"\\">>)
       THEN LET pieces == SplitOn(pattern_filename, <<"\\">>) IN pieces[Len(pieces)]
       ELSE pattern_filename

\* Lines 78-92.
GetAntennaType(sector_data) ==
    LET pattern_filename == Strip(Get(sector_data, KeyPattern, << >>)) IN
    IF pattern_filename # << >>
    THEN IF Contains(pattern_filename, <<"\\">>)
         THEN LET pieces == SplitOn(pattern_filename, <<"\\">>) IN pieces[Len(pieces)]
         ELSE pattern_filename
    ELSE Strip(Get(sector_data, KeyAntennaType, << >>))

\* sector_id[:-1]
Station(sector_id) == SubSeq(sector_id, 1, Len(sector_id) - 1)

\* Lines 98-104: station -> its sector ids, stations and ids in insertion order.
RECURSIVE GroupStations(_, _)
GroupStations(sts, ids) ==
    IF ids = << >> THEN sts
    ELSE LET station == Station(Head(ids))
             list == Get(sts.val, station, << >>)
         IN GroupStations(OPut(sts, station, Append(list, Head(ids))), Tail(ids))

\* sorted(list) of strings
RECURSIVE Insert(_, _)
Insert(sorted, x) ==
    IF sorted = << >> THEN <<x>>
    ELSE IF StrLess(x, Head(sorted)) THEN <<x>> \o sorted
    ELSE <<Head(sorted)>> \o Insert(Tail(sorted), x)

\* sorted(list) left out: the list in insertion order.
SortedInsertionOrder(list) == list

RECURSIVE Sorted(_)
Sorted(list) ==
    IF list = << >> THEN << >>
    ELSE Insert(Sorted(SubSeq(list, 1, Len(list) - 1)), list[Len(list)])

\* RowOrder with the stations visited in sorted order, not insertion order.
RECURSIVE RowOrderStationsSorted(_, _)
RowOrderStationsSorted(sts, names) ==
    IF names = << >> THEN << >>
    ELSE LET first == Sorted(names)[1]
             list == Sorted(sts.val[first])
         IN [n \in 1..Len(list) |->
                [station |-> first, i |-> n - 1, sector_id |-> list[n]]]
            \o RowOrderStationsSorted(sts, SelectSeq(names, LAMBDA x : x # first))

\* The iterations of the loops of lines 125-126, in order.
RECURSIVE RowOrder(_, _)
RowOrder(sts, names) ==
    IF names = << >> THEN << >>
    ELSE LET list == Sorted(sts.val[Head(names)])
         IN [n \in 1..Len(list) |->
                [station |-> Head(names), i |-> n - 1, sector_id |-> list[n]]]
            \o RowOrder(sts, Tail(names))

\* Lines 127-192: the row of one sector, or the exception that leaves the loop.
MakeRow(it, sectors_data, traffic) ==
    LET sector_data  == Get(sectors_data.val, it.sector_id, EmptyDict)
        has_traffic  == it.sector_id \in DOMAIN traffic
        station_name == IF it.i = 0 THEN it.station ELSE << >>
        height       == Strip(Get(sector_data, KeyElevation, << >>))
        power        == PowerField(Strip(Get(sector_data, KeyPower, << >>)))
        antenna_type == GetAntennaType(sector_data)
        azimuth      == Strip(Get(sector_data, KeyAzimuth, << >>))
        tilt         == Strip(Get(sector_data, KeyTilt, << >>))
        circuit_traffic == IF has_traffic
                           THEN traffic[it.sector_id].circuit_traffic ELSE << >>
        packet_traffic  == IF has_traffic
                           THEN traffic[it.sector_id].packet_traffic ELSE << >>
        required_channels == IF has_traffic
                             THEN traffic[it.sector_id].required_channels ELSE << >>
        channels_set == IF has_traffic
                        THEN traffic[it.sector_id].channels_set ELSE << >>
        blocking     == IF has_traffic
                        THEN traffic[it.sector_id].blocking_probability ELSE << >>
        blocking_probability ==
            IF blocking = <<"*", "*", "*", "*", "*">>
            THEN <<">", "9", "9", ".", "9", "9">> ELSE blocking
    IN [raised |-> power.raised,
        row |-> <<station_name, it.sector_id, height, power.text, antenna_type,
                  azimuth, tilt, circuit_traffic, PacketKbps(packet_traffic),
                  required_channels, channels_set, blocking_probability, << >> >>]

\* Lines 107-121 (the labels in ASCII: no row depends on them).
Headers ==
    <<"Nazwa stacji", "ID sektora", "Wys. stacji n.p.m. [m]",
      "Moc nadajnika [W]/[dBW]", "Typ anteny nadawczej", "Azymut [deg]",
      "Pochylenie [deg]", "Ruch generowany [mErl.]", "Ruch generowany [kbps]",
      "Liczba potrzebnych kanalow", "Numery przydzielonych kanalow radiowych",
      "Rzeczywiste prawdopodobienstwo blokady [%]",
      "Definicja sasiedztwa dla HO (ID sektorow)">>

\* The output path of line 209.
OutputCsv == "sectors_table.csv"

\* A file on disk: what it is and what it holds.
File(kind, data) == [kind |-> kind, data |-> data]

\* Lines 197-200: the header and the rows replace the output file.
WriteCsv(files, rs) == Put(files, OutputCsv, File("csv", <<Headers>> \o rs))

\* Lines 202-203.
Summary(rs, sts) ==
    <<[msg |-> "CSV file created", arg |-> <<OutputCsv>>],
      [msg |-> "Processed", arg |-> <<Len(rs), Len(sts.keys)>>]>>

\* Lines 123-194 as a whole: the rows, or the rows so far and the exception.
RECURSIVE BuildRows(_, _, _, _)
BuildRows(acc, items, sectors_data, traffic) ==
    IF items = << >> THEN [raised |-> "none", rows |-> acc]
    ELSE LET r == MakeRow(Head(items), sectors_data, traffic) IN
         IF r.raised # "none" THEN [raised |-> r.raised, rows |-> acc]
         ELSE BuildRows(Append(acc, r.row), Tail(items), sectors_data, traffic)

----------------------------------------------------------------------------
(* create_csv_table as a state machine                                     *)

\* Line 98-104, and the order of the iterations of lines 125-126.
TableGroup ==
    /\ pc = "table_start"
    /\ stations' = GroupStations(EmptyODict, sectors.keys)
    /\ todo' = RowOrder(stations', stations'.keys)
    /\ rows' = << >>
    /\ pc' = "table_rows"
    /\ UNCHANGED <<content, site_sections, sectors, lines, data_started,
                   traffic_data, idx, raised, fs, stdout>>

\* Lines 126-194: one sector; an exception leaves the function before line 196.
TableRow ==
    /\ pc = "table_rows"
    /\ todo # << >>
    /\ LET r == MakeRow(Head(todo), sectors, traffic_data) IN
       IF r.raised = "none"
       THEN /\ rows' = Append(rows, r.row)
            /\ todo' = Tail(todo)
            /\ UNCHANGED <<pc, raised>>
       ELSE /\ raised' = r.raised
            /\ pc' = "table_raised"
            /\ UNCHANGED <<rows, todo>>
    /\ UNCHANGED <<content, site_sections, sectors, lines, data_started,
                   traffic_data, idx, stations, fs, stdout>>

\* Lines 196-203: the header and the rows, written to the output file.
TableWrite ==
    /\ pc = "table_rows"
    /\ todo = << >>
    /\ fs' = WriteCsv(fs, rows)
    /\ stdout' = stdout \o Summary(rows, stations)
    /\ pc' = "table_done"
    /\ UNCHANGED <<content, site_sections, sectors, lines, data_started,
                   traffic_data, idx, stations, todo, rows, raised>>

NextTable == TableGroup \/ TableRow \/ TableWrite

\* Inputs of create_csv_table: up to MaxSectors site records under distinct
\* identifiers, in any insertion order, and a traffic mapping.
MaxSectors == 3

SectorIds ==
    { <<"A", "1">>, <<"A", "2">>, <<"A", "1", "0">>, <<"B", "2">>, <<"A">>, << >> }

RecordFull ==
    [k \in {KeyElevation, KeyPower, KeyPattern, KeyAntennaType, KeyAzimuth, KeyTilt} |->
        IF k = KeyElevation THEN <<"1", "2", "0">>
        ELSE IF k = KeyPower THEN <<"2", "0">>
        ELSE IF k = KeyPattern THEN <<"C", ":", "\\", "X", "\\", "D", "B", ".", "P", "A", "T">>
        ELSE IF k = KeyAntennaType THEN <<"T", "1">>
        ELSE IF k = KeyAzimuth THEN <<"9", "0">>
        ELSE <<"-", "2">>]

RecordOverflow == [k \in {KeyPower} |-> <<"4", "0", "0", "0">>]

SiteRecords == { EmptyDict, RecordFull, RecordOverflow }

\* Every ordered dict of n distinct identifiers with records from recs.
ODicts(ids, recs, n) ==
    { [keys |-> ks, val |-> [k \in {ks[m] : m \in 1..n} |-> rs[CHOOSE m \in 1..n : ks[m] = k]]] :
        ks \in { q \in [1..n -> ids] : \A a, b \in 1..n : a # b => q[a] # q[b] },
        rs \in [1..n -> recs] }

TrafficTables ==
    { ParseTrafficReport(<< >>),
      ParseTrafficReport(<<Boundary \o <<"\n">>, DataRowA, DataRowB>>),
      ParseTrafficReport(<<Boundary \o <<"\n">>, DataRowA2>>) }

InitTableCommon ==
    /\ pc = "table_start"
    /\ stations = EmptyODict
    /\ todo = << >>
    /\ rows = << >>
    /\ raised = "none"
    /\ idx = 1
    /\ fs = EmptyDict
    /\ stdout = << >>
    /\ IdleTmp /\ IdleTraffic

InitTable ==
    /\ sectors \in UNION { ODicts(SectorIds, SiteRecords, n) : n \in 0..MaxSectors }
    /\ traffic_data \in TrafficTables
    /\ InitTableCommon

SpecTable == InitTable /\ [][NextTable]_vars

\* One sector whose record has any of the values below (or lacks the key)
\* for the transmitter power, the pattern filename and the antenna type.
Absent == <<"absent">>

PowerValues ==
    { << >>, <<" ">>, <<"2", "0">>, <<" ", "2", "0", "\t">>, <<"a", "b", "c">>,
      <<"0">>, <<"-", "1", "0">>, <<"+", "5">>, <<"1", "3">>, <<"5", "9">>,
      <<"-", "3", "1">>, <<"2", "0", ".", "0">>, <<"0", "2", "0">>,
      <<"3", "0", "8", "3">>, <<"4", "0", "0", "0">>,
      <<"i", "n", "f">>, <<"-", "i", "n", "f">>, <<"n", "a", "n">>,
      <<".">>, <<"-">>, <<"2", ".", "x">>, <<"1", ".", "2", ".", "3">> }

PatternValues ==
    { << >>, <<" ", "\t">>, <<"D", "B", ".", "P", "A", "T">>,
      <<" ", "D", "B", ".", "P", "A", "T", " ">>,
      <<"C", ":", "\\", "X", "\\", "D", "B", ".", "P", "A", "T">>,
      <<"C", ":", "\\">>, <<"\\">>, <<"C", ":", "\\", " ", "X", " ">> }

AntennaTypeValues ==
    { << >>, <<"T", "1">>, <<" ", "T", "1", " ">>, <<"\t">>, <<"a", "\\", "b">> }

FieldRecord(power, pattern, type) ==
    LET present == {k \in {KeyPower, KeyPattern, KeyAntennaType} :
                       \/ k = KeyPower /\ power # Absent
                       \/ k = KeyPattern /\ pattern # Absent
                       \/ k = KeyAntennaType /\ type # Absent}
    IN [k \in present |->
            IF k = KeyPower THEN power
            ELSE IF k = KeyPattern THEN pattern ELSE type]

InitFields ==
    /\ \E power \in PowerValues \cup {Absent},
          pattern \in PatternValues \cup {Absent},
          type \in AntennaTypeValues \cup {Absent} :
            sectors = OPut(EmptyODict, <<"A", "1">>, FieldRecord(power, pattern, type))
    /\ traffic_data = ParseTrafficReport(<<Boundary \o <<"\n">>, DataRowA2>>)
    /\ InitTableCommon

SpecFields == InitFields /\ [][NextTable]_vars

----------------------------------------------------------------------------
(* main                                                                    *)

\* Lines 207-208.
TmpFile == "Project/tx_sector_data.tmp"
TrafficFile == "Project/reports/sector_traffic_loading.txt"

\* The kinds of input file: readable text, bytes that are not UTF-8 (read()
\* raises UnicodeDecodeError), or no file.  The kinds of output file before the
\* run: left by an earlier run, the same but not writable (open raises
\* PermissionError), or no file.
InputKinds == {"text", "undecodable", "absent"}
OutputKinds == {"stale", "readonly", "absent"}

Say(m, a) == [msg |-> m, arg |-> a]

PowerLine(v) == KeyPower \o <<" ", "=", " ">> \o v \o <<"\n">>

MainSiteFiles ==
    { << >>,
      Marker \o <<"A", "1", "\n">> \o PowerLine(<<"2", "0">>),
      Marker \o <<"A", "2", "\n">> \o PowerLine(<<"a", "b", "c">>)
          \o Marker \o <<"A", "1", "\n">>
          \o Marker \o <<"B", "2", "\n">> \o PowerLine(<<"1", "3">>),
      Marker \o <<"A", "1", "\n">> \o PowerLine(<<"2", "0">>)
          \o Marker \o <<"A", "2", "\n">> \o PowerLine(<<"4", "0", "0", "0">>) }

MainTrafficFiles ==
    { << >>, <<Boundary \o <<"\n">>, DataRowA, DataRowB>>, <<DataRowA>> }

InitMain ==
    /\ pc = "main_start"
    /\ \E sk \in InputKinds, site \in MainSiteFiles,
          tk \in InputKinds, traffic \in MainTrafficFiles, ok \in OutputKinds :
            fs = [f \in {n \in {TmpFile, TrafficFile, OutputCsv} :
                            \/ n = TmpFile /\ sk # "absent"
                            \/ n = TrafficFile /\ tk # "absent"
                            \/ n = OutputCsv /\ ok # "absent"} |->
                    IF f = TmpFile
                    THEN File(sk, IF sk = "text" THEN site ELSE << >>)
                    ELSE IF f = TrafficFile
                    THEN File(tk, IF tk = "text" THEN traffic ELSE << >>)
                    ELSE File(ok, << >>)]
    /\ stdout = << >>
    /\ sectors = EmptyODict
    /\ traffic_data = EmptyDict
    /\ raised = "none"
    /\ idx = 1
    /\ IdleTmp /\ IdleTraffic /\ IdleTable

\* open(filepath, 'r') and read: the exception raised, or "none".
OpenRead(files, path) ==
    IF path \notin DOMAIN files THEN "FileNotFoundError"
    ELSE IF files[path].kind = "undecodable" THEN "UnicodeDecodeError"
    ELSE "none"

\* Lines 213-214.
MainParseSite ==
    /\ pc = "main_start"
    /\ stdout' = Append(stdout, Say("Parsing sector data...", << >>))
    /\ IF OpenRead(fs, TmpFile) = "none"
       THEN /\ sectors' = ParseTmpFile(fs[TmpFile].data)
            /\ pc' = "main_traffic"
            /\ UNCHANGED raised
       ELSE /\ raised' = OpenRead(fs, TmpFile)
            /\ pc' = "main_except"
            /\ UNCHANGED sectors
    /\ UNCHANGED <<content, site_sections, lines, data_started, traffic_data,
                   idx, stations, todo, rows, fs>>

\* Lines 216-217.
MainParseTraffic ==
    /\ pc = "main_traffic"
    /\ stdout' = Append(stdout, Say("Parsing traffic report...", << >>))
    /\ IF OpenRead(fs, TrafficFile) = "none"
       THEN /\ traffic_data' = ParseTrafficReport(fs[TrafficFile].data)
            /\ pc' = "main_table"
            /\ UNCHANGED raised
       ELSE /\ raised' = OpenRead(fs, TrafficFile)
            /\ pc' = "main_except"
            /\ UNCHANGED traffic_data
    /\ UNCHANGED <<content, site_sections, sectors, lines, data_started, idx,
                   stations, todo, rows, fs>>

\* MainBuildRows with the output file opened before the rows are derived.
MainBuildRowsOpenFirst ==
    /\ pc = "main_table"
    /\ stdout' = Append(stdout, Say("Creating CSV table...", << >>))
    /\ stations' = GroupStations(EmptyODict, sectors.keys)
    /\ LET r == BuildRows(<< >>, RowOrder(stations', stations'.keys),
                          sectors, traffic_data)
       IN /\ rows' = r.rows
          /\ raised' = r.raised
          /\ fs' = IF OutputCsv \in DOMAIN fs /\ fs[OutputCsv].kind = "readonly"
                   THEN fs ELSE WriteCsv(fs, << >>)
          /\ pc' = IF r.raised = "none" THEN "main_write" ELSE "main_except"
    /\ UNCHANGED <<content, site_sections, sectors, lines, data_started,
                   traffic_data, idx, todo>>

\* Lines 219-220 and 98-194: create_csv_table up to the last row.
MainBuildRows ==
    /\ pc = "main_table"
    /\ stdout' = Append(stdout, Say("Creating CSV table...", << >>))
    /\ stations' = GroupStations(EmptyODict, sectors.keys)
    /\ LET r == BuildRows(<< >>, RowOrder(stations', stations'.keys),
                          sectors, traffic_data)
       IN /\ rows' = r.rows
          /\ raised' = r.raised
          /\ pc' = IF r.raised = "none" THEN "main_write" ELSE "main_except"
    /\ UNCHANGED <<content, site_sections, sectors, lines, data_started,
                   traffic_data, idx, todo, fs>>

\* Lines 196-203: create_csv_table from the open of the output file on.
MainWriteCsv ==
    /\ pc = "main_write"
    /\ IF OutputCsv \in DOMAIN fs /\ fs[OutputCsv].kind = "readonly"
       THEN /\ raised' = "PermissionError"
            /\ pc' = "main_except"
            /\ UNCHANGED <<fs, stdout>>
       ELSE /\ fs' = WriteCsv(fs, rows)
            /\ stdout' = stdout \o Summary(rows, stations)
            /\ pc' = "main_sample"
            /\ UNCHANGED raised
    /\ UNCHANGED <<content, site_sections, sectors, lines, data_started,
                   traffic_data, idx, stations, todo, rows>>

\* Lines 222-232: the first two sectors.
MainPrintSample ==
    /\ pc = "main_sample"
    /\ stdout' = stdout \o <<Say("Sample of parsed data:", << >>)>>
          \o [n \in 1..(IF Len(sectors.keys) < 2 THEN Len(sectors.keys) ELSE 2) |->
                Say("Sector", <<sectors.keys[n],
                                GetAntennaType(sectors.val[sectors.keys[n]]),
                                sectors.keys[n] \in DOMAIN traffic_data>>)]
    /\ pc' = "main_end"
    /\ UNCHANGED <<content, site_sections, sectors, lines, data_started,
                   traffic_data, idx, stations, todo, rows, raised, fs>>

\* Lines 234-235.
MainExceptFileNotFound ==
    /\ pc = "main_except"
    /\ raised = "FileNotFoundError"
    /\ stdout' = Append(stdout, Say("Error: Could not find file", <<raised>>))
    /\ pc' = "main_end"
    /\ UNCHANGED <<content, site_sections, sectors, lines, data_started,
                   traffic_data, idx, stations, todo, rows, raised, fs>>

\* Lines 236-237.
MainExceptException ==
    /\ pc = "main_except"
    /\ raised # "FileNotFoundError"
    /\ stdout' = Append(stdout, Say("Error processing files", <<raised>>))
    /\ pc' = "main_end"
    /\ UNCHANGED <<content, site_sections, sectors, lines, data_started,
                   traffic_data, idx, stations, todo, rows, raised, fs>>

NextMain ==
    \/ MainParseSite
    \/ MainParseTraffic
    \/ MainBuildRows
    \/ MainWriteCsv
    \/ MainPrintSample
    \/ MainExceptFileNotFound
    \/ MainExceptException

SpecMain == InitMain /\ [][NextMain]_vars

----------------------------------------------------------------------------
(* Claims about parse_traffic_report                                       *)

\* C1: no line before the first line containing the boundary string
\* contributes an entry: as long as no line read so far contains the
\* boundary, the mapping is empty, whatever the lines look like; so a report
\* without a boundary line returns the empty mapping.
C1_NothingBeforeBoundary ==
    pc \in {"traffic_loop", "traffic_done"} =>
        ((\A k \in 1..(idx - 1) : ~Contains(lines[k], Boundary))
            => DOMAIN traffic_data = {})

\* C1 witness: a seven-token row, then the boundary, then a row; only the
\* row after the boundary is in the result.
C1_Witness ==
    /\ pc = "traffic_done"
    /\ Len(lines) = 3
    /\ lines[1] = DataRowA
    /\ lines[2] = Boundary \o <<"\n">>
    /\ lines[3] = DataRowB
    /\ DOMAIN traffic_data = {<<"B", "2">>}

\* The entry a line with at least seven tokens stands for.
C6_Entry(parts) ==
    [circuit_traffic      |-> parts[2],
     required_channels    |-> parts[3],
     channels_set         |-> parts[4],
     channel_shortfall    |-> parts[5],
     blocking_probability |-> parts[6],
     packet_traffic       |-> parts[7]]

C6_Effect(parts) ==
    IF Len(parts) >= 7
    THEN traffic_data' =
            [k \in DOMAIN traffic_data \cup {parts[1]} |->
                IF k = parts[1] THEN C6_Entry(parts) ELSE traffic_data[k]]
    ELSE traffic_data' = traffic_data

\* C6 as stated: once the flag is true, every later line with at least seven
\* tokens sets the entry of its first token and every later line with fewer
\* leaves the mapping unchanged, a later boundary line included.
C6_Original ==
    [][(pc = "traffic_loop" /\ idx <= Len(lines) /\ data_started)
        => C6_Effect(SplitWs(lines[idx]))]_vars

\* C6 amended: once the flag is true, every later line that does not contain
\* the boundary string sets the entry of its first token when it has at
\* least seven tokens and leaves the mapping unchanged when it has fewer; a
\* later line that contains the boundary string leaves the mapping unchanged.
C6_DataAfterBoundary ==
    [][(pc = "traffic_loop" /\ idx <= Len(lines) /\ data_started)
        => IF Contains(lines[idx], Boundary)
           THEN traffic_data' = traffic_data
           ELSE C6_Effect(SplitWs(lines[idx]))]_vars

\* C6 witness: boundary, row, second boundary line: the row is the only entry.
C6_Witness ==
    /\ pc = "traffic_done"
    /\ Len(lines) = 3
    /\ lines[1] = Boundary \o <<"\n">>
    /\ lines[2] = DataRowA2
    /\ Contains(lines[3], Boundary)
    /\ DOMAIN traffic_data = {<<"A", "1">>}
    /\ traffic_data[<<"A", "1">>].blocking_probability = <<"*", "*", "*", "*", "*">>

----------------------------------------------------------------------------
(* Claims about parse_tmp_file                                             *)

\* The text of a line before its first "=", and after it, trimmed.
C5_Key(line) ==
    LET n == CHOOSE m \in 1..Len(line) :
                 line[m] = "=" /\ \A j \in 1..(m - 1) : line[j] # "="
    IN Strip(SubSeq(line, 1, n - 1))

C5_Value(line) ==
    LET n == CHOOSE m \in 1..Len(line) :
                 line[m] = "=" /\ \A j \in 1..(m - 1) : line[j] # "="
    IN Strip(SubSeq(line, n + 1, Len(line)))

\* The key/value pairs of candidate lines ls[from..]: each key of a line
\* with "=" maps to the value of the last such line.
C5_Pairs(ls, from) ==
    LET cand == {n \in from..Len(ls) : \E m \in 1..Len(ls[n]) : ls[n][m] = "="}
        last(k) == CHOOSE n \in cand :
                      /\ C5_Key(ls[n]) = k
                      /\ \A m \in cand : C5_Key(ls[m]) = k => m <= n
    IN [k \in {C5_Key(ls[n]) : n \in cand} |-> C5_Value(ls[last(k)])]

\* The lines of a fragment as it stands between two markers.
C5_RawLines(section) == SplitOn(section, <<"\n">>)

\* The first line of the fragment with a character that is not whitespace,
\* 0 when there is none.
C5_FirstNonBlank(ls) ==
    LET nb == {n \in 1..Len(ls) : \E m \in 1..Len(ls[n]) : ls[n][m] \notin Whitespace}
    IN IF nb = {} THEN 0 ELSE CHOOSE n \in nb : \A m \in nb : n <= m

\* C5 as stated: the fragment just stored is stored under its first line
\* (the text up to the first newline), trimmed, with the pairs of the lines
\* after that first line, also when the first line is empty or blank.
C5_Original ==
    (pc \in {"tmp_loop", "tmp_done"} /\ idx > 1) =>
        LET ls == C5_RawLines(site_sections[idx - 1])
            id == Strip(ls[1])
        IN /\ id \in DOMAIN sectors.val
           /\ sectors.val[id] = C5_Pairs(ls, 2)

\* What the code does instead of C5 (line 16 strips the whole fragment before
\* it is split into lines): the fragment just stored is stored under its first
\* line that has a non-whitespace character, trimmed (under the empty
\* identifier when it has none), with the pairs of the lines after that line.
C5_IdIsFirstNonBlankLine ==
    (pc \in {"tmp_loop", "tmp_done"} /\ idx > 1) =>
        LET ls == C5_RawLines(site_sections[idx - 1])
            n  == C5_FirstNonBlank(ls)
            id == IF n = 0 THEN << >> ELSE Strip(ls[n])
        IN /\ id \in DOMAIN sectors.val
           /\ sectors.val[id] = (IF n = 0 THEN EmptyDict ELSE C5_Pairs(ls, n + 1))

\* A fragment with a blank first line stored under its second line, and one
\* with a non-blank first line stored under that line.
C5_Witness ==
    /\ pc = "tmp_done"
    /\ Len(site_sections) = 2
    /\ site_sections[1] = <<" "," ","\n"," ","B","2","\n","k"," ","="," ","1","\n","d","=","e">>
    /\ site_sections[2] = <<" ","A","1"," ","\t","\n","k","=","v","=","x","\n","\n","n","x","\n","=","\n">>
    /\ sectors.keys = << <<"B", "2">>, <<"A", "1">> >>
    /\ sectors.val[<<"A", "1">>][<<"k">>] = <<"v", "=", "x">>

\* C9: at the return, each identifier maps to exactly the pairs of the last
\* block that carries it (an earlier block's pairs are replaced, not merged),
\* and within a block a repeated key keeps the value of its last line.
C9_LastBlockWins ==
    pc = "tmp_done" =>
        LET idOf(j) ==
                LET ls == C5_RawLines(site_sections[j])
                    n  == C5_FirstNonBlank(ls)
                IN IF n = 0 THEN << >> ELSE Strip(ls[n])
            pairsOf(j) ==
                LET ls == C5_RawLines(site_sections[j])
                    n  == C5_FirstNonBlank(ls)
                IN IF n = 0 THEN EmptyDict ELSE C5_Pairs(ls, n + 1)
            blocks == 1..Len(site_sections)
        IN /\ DOMAIN sectors.val = {idOf(j) : j \in blocks}
           /\ \A j \in blocks :
                (\A m \in blocks : idOf(m) = idOf(j) => m <= j)
                    => sectors.val[idOf(j)] = pairsOf(j)

\* C9 witness: two blocks A1, the first with key d only, the second with key
\* k twice: the result has k alone, with the value of its last line.
C9_Witness ==
    /\ pc = "tmp_done"
    /\ Len(site_sections) = 2
    /\ site_sections[1] = <<"A","1","\n","d"," ","="," ","e","\n">>
    /\ site_sections[2] = <<"A","1","\n","k"," ","="," ","v","\n","k"," ","=","x","\n","b","=","\n">>
    /\ sectors.keys = << <<"A", "1">> >>
    /\ DOMAIN sectors.val[<<"A", "1">>] = {<<"k">>, <<"b">>}
    /\ sectors.val[<<"A", "1">>][<<"k">>] = <<"x">>

----------------------------------------------------------------------------
(* Claims about create_csv_table and get_antenna_type                      *)

\* The data rows of the output file (the rows after the header).
DataRows == IF OutputCsv \in DOMAIN fs THEN Tail(fs[OutputCsv].data) ELSE << >>

TableEnded == pc \in {"table_done", "table_raised"}

\* The left join on the rows written: one row per site sector, none for a
\* sector of the traffic mapping only, the five traffic fields empty for a
\* site sector without traffic record.
C2_LeftJoin(data) ==
    /\ Len(data) = Len(sectors.keys)
    /\ \A n \in 1..Len(sectors.keys) :
          Cardinality({m \in 1..Len(data) : data[m][2] = sectors.keys[n]}) = 1
    /\ \A m \in 1..Len(data) :
          /\ \E n \in 1..Len(sectors.keys) : data[m][2] = sectors.keys[n]
          /\ data[m][2] \notin DOMAIN traffic_data
                => \A c \in 8..12 : data[m][c] = << >>

\* C2 as stated: for every pair of mappings, when create_csv_table has ended
\* the output holds exactly one data row per key of the site-parameter
\* mapping, none for a traffic-only sector, and a site sector without
\* traffic record has its row with the five traffic-derived fields empty.
C2_Original == TableEnded => (OutputCsv \in DOMAIN fs /\ C2_LeftJoin(DataRows))

\* What holds of C2: the left join, for the runs that reach the write.
C2_LeftJoinWhenWritten == pc = "table_done" => C2_LeftJoin(DataRows)

\* The sector identifiers of the site mapping with the station prefix of id.
C3_Group(id) ==
    {sectors.keys[n] : n \in {m \in 1..Len(sectors.keys) :
        SubSeq(sectors.keys[m], 1, Len(sectors.keys[m]) - 1) = SubSeq(id, 1, Len(id) - 1)}}

\* C3: in the rows written, the station-name field of a row is the station
\* prefix S of its sector when that sector is the lexicographically smallest
\* of its station group, and empty on every other row of the group.
C3_NameOnFirstRowOnly ==
    pc = "table_done" =>
        \A m \in 1..Len(DataRows) :
            LET id == DataRows[m][2]
                smallest == \A other \in C3_Group(id) : other = id \/ StrLess(id, other)
            IN DataRows[m][1] =
                 (IF smallest THEN SubSeq(id, 1, Len(id) - 1) ELSE << >>)

\* C3 witness: A2 inserted before A1; the row of A1 carries the name A, the
\* row of A2 is blank, the row of B2 carries B.
C3_Witness ==
    /\ pc = "table_done"
    /\ sectors.keys = << <<"A", "2">>, <<"B", "2">>, <<"A", "1">> >>
    /\ Len(DataRows) = 3
    /\ DataRows[1][1] = <<"A">> /\ DataRows[1][2] = <<"A", "1">>
    /\ DataRows[2][1] = << >>   /\ DataRows[2][2] = <<"A", "2">>
    /\ DataRows[3][1] = <<"B">> /\ DataRows[3][2] = <<"B", "2">>

\* The place of the first key of the site mapping with the station prefix of id.
C10_FirstInsertion(id) ==
    CHOOSE n \in 1..Len(sectors.keys) :
        /\ SubSeq(sectors.keys[n], 1, Len(sectors.keys[n]) - 1) = SubSeq(id, 1, Len(id) - 1)
        /\ \A m \in 1..(n - 1) :
              SubSeq(sectors.keys[m], 1, Len(sectors.keys[m]) - 1) # SubSeq(id, 1, Len(id) - 1)

\* C10: in the rows written, the rows of a station are contiguous, stations
\* come in the order of the first insertion of one of their sectors into the
\* site mapping, and the rows of a station ascend lexicographically by
\* sector identifier.
C10_RowOrder ==
    pc = "table_done" =>
        \A a, b \in 1..Len(DataRows) :
            a < b =>
                LET ida == DataRows[a][2]
                    idb == DataRows[b][2]
                IN IF C3_Group(ida) = C3_Group(idb)
                   THEN /\ StrLess(ida, idb)
                        /\ \A c \in a..b : C3_Group(DataRows[c][2]) = C3_Group(ida)
                   ELSE C10_FirstInsertion(ida) < C10_FirstInsertion(idb)

\* C10 witness: B2, A2, A10 and A1 are inserted in that order (three of them
\* in a model of three sectors): station B first, then A1 before A2.
C10_Witness ==
    /\ pc = "table_done"
    /\ sectors.keys = << <<"B", "2">>, <<"A", "2">>, <<"A", "1">> >>
    /\ Len(DataRows) = 3
    /\ DataRows[1][2] = <<"B", "2">>
    /\ DataRows[2][2] = <<"A", "1">>
    /\ DataRows[3][2] = <<"A", "2">>

\* The trimmed value of a key of the sector's record, empty when absent.
Trimmed(id, key) ==
    IF key \in DOMAIN sectors.val[id] THEN Strip(sectors.val[id][key]) ELSE << >>

\* The power field of C7 for the trimmed value v: empty for an empty v,
\* "/" v "dBW" for a v that is no number, and the watts to two decimals then
\* "W/" v "dBW" for a number d (the digits of the watts are stated for the
\* d whose 10^(d/10) the model computes).
C7_PowerCase(v, field) ==
    LET p == ParseFloat(v)
        tail == <<"W", "/">> \o v \o <<"d", "B", "W">>
    IN IF v = << >> THEN field = << >>
       ELSE IF p.kind = "err" THEN field = <<"/">> \o v \o <<"d", "B", "W">>
       ELSE /\ Len(field) > Len(tail)
            /\ SubSeq(field, Len(field) - Len(tail) + 1, Len(field)) = tail
            /\ (p.kind = "num" /\ p.scale = 0 /\ p.mant <= 59 /\ ~p.neg)
                 => SubSeq(field, 1, Len(field) - Len(tail))
                      = FormatCenti(FALSE, WattsCenti(p.mant))

\* C7 as stated: for every value of the transmitter power, when
\* create_csv_table has ended the sector's row was emitted with the power
\* field of the value's case.
C7_Original ==
    TableEnded =>
        \A n \in 1..Len(sectors.keys) :
            \E m \in 1..Len(rows) :
                /\ rows[m][2] = sectors.keys[n]
                /\ C7_PowerCase(Trimmed(sectors.keys[n], KeyPower), rows[m][4])

\* What holds of C7: the three cases, for the rows that are emitted.
C7_CasesWhenEmitted ==
    \A m \in 1..Len(rows) : C7_PowerCase(Trimmed(rows[m][2], KeyPower), rows[m][4])

\* The part of v after its last backslash, v itself when it has none.
C8_AfterLastBackslash(v) ==
    LET bs == {n \in 1..Len(v) : v[n] = "\\"}
    IN IF bs = {} THEN v
       ELSE SubSeq(v, (CHOOSE n \in bs : \A m \in bs : m <= n) + 1, Len(v))

\* C8: the antenna-type field get_antenna_type returned for a row is the
\* part after the last backslash of the trimmed pattern filename when that
\* is non-empty, whatever the antenna type holds, and the trimmed antenna
\* type (empty when absent) otherwise.
C8_PatternBeforeType ==
    \A m \in 1..Len(rows) :
        LET pattern == Trimmed(rows[m][2], KeyPattern) IN
        rows[m][5] = (IF pattern # << >> THEN C8_AfterLastBackslash(pattern)
                      ELSE Trimmed(rows[m][2], KeyAntennaType))

\* C8 witness: a pattern filename ending in a backslash gives the empty
\* field although the antenna type is T1.
C8_Witness ==
    /\ pc = "table_done"
    /\ Len(rows) = 1
    /\ KeyPattern \in DOMAIN sectors.val[<<"A", "1">>]
    /\ sectors.val[<<"A", "1">>][KeyPattern] = <<"C", ":", "\\">>
    /\ KeyAntennaType \in DOMAIN sectors.val[<<"A", "1">>]
    /\ sectors.val[<<"A", "1">>][KeyAntennaType] = <<"T", "1">>
    /\ rows[1][5] = << >>

----------------------------------------------------------------------------
(* Claims about main                                                       *)

\* The output file holds a table written by this run.
C4_Written == OutputCsv \in DOMAIN fs /\ fs[OutputCsv].kind = "csv"

C4_LastMessage == stdout[Len(stdout)].msg

\* The run meets a missing input file: the site file, or the traffic file
\* after the site file was read.
C4_MissingFileMet ==
    \/ TmpFile \notin DOMAIN fs
    \/ fs[TmpFile].kind = "text" /\ TrafficFile \notin DOMAIN fs

\* C4: the stages run in the order site parse, traffic parse, rows, write;
\* the output file is written only after both parses and every row are done
\* without exception; a run that fails before the write prints an error
\* message and ends with the output file neither created nor overwritten;
\* and a missing input file gets the file-not-found message, any other
\* failure the generic one.  (Every stage but the end has a step to take, and
\* an exception is at the handlers until its message is printed.)
C4_FailureLeavesNoOutput ==
    /\ pc \in {"main_start", "main_traffic", "main_table", "main_write",
              "main_sample", "main_except", "main_end"}
    /\ pc = "main_except" => raised # "none"
    /\ \A n \in 1..Len(stdout) :
          /\ stdout[n].msg = "Parsing sector data..." => n = 1
          /\ stdout[n].msg = "Parsing traffic report..." => n = 2
          /\ stdout[n].msg = "Creating CSV table..." => n = 3
          /\ stdout[n].msg = "CSV file created" => n = 4
    /\ C4_Written =>
          /\ raised = "none"
          /\ pc \in {"main_sample", "main_end"}
          /\ TmpFile \in DOMAIN fs /\ fs[TmpFile].kind = "text"
          /\ TrafficFile \in DOMAIN fs /\ fs[TrafficFile].kind = "text"
          /\ sectors = ParseTmpFile(fs[TmpFile].data)
          /\ traffic_data = ParseTrafficReport(fs[TrafficFile].data)
          /\ Len(rows) = Len(sectors.keys)
          /\ DataRows = rows
          /\ Len(stdout) >= 4 /\ stdout[4].msg = "CSV file created"
    /\ raised # "none" =>
          /\ ~C4_Written
          /\ pc \in {"main_except", "main_end"}
    /\ pc = "main_end" =>
          /\ raised # "none" <=> ~C4_Written
          /\ raised # "none" <=>
                C4_LastMessage \in {"Error: Could not find file", "Error processing files"}
          /\ C4_LastMessage = "Error: Could not find file" <=> C4_MissingFileMet

\* C4 witness: the power of a sector overflows while the rows are derived;
\* the run ends with the generic message and the earlier output untouched.
C4_Witness ==
    /\ pc = "main_end"
    /\ raised = "OverflowError"
    /\ Len(stdout) = 4
    /\ stdout[3].msg = "Creating CSV table..."
    /\ stdout[4].msg = "Error processing files"
    /\ OutputCsv \in DOMAIN fs /\ fs[OutputCsv].kind = "stale"

=============================================================================
